---- MODULE Spec2Model ----
(***************************************************************************)
(* Model of the Blockchain class of src/src/blockchain.js.                 *)
(*                                                                         *)
(* The class runs on a JavaScript event loop.  A method runs without       *)
(* interruption up to its first `await`; the rest of its body is a         *)
(* continuation placed on the FIFO microtask queue.  The model has one     *)
(* action per public method (its synchronous part, called by client code   *)
(* at any moment between two microtasks) and one action that runs the      *)
(* continuation at the head of the microtask queue.                        *)
(*                                                                         *)
(* block.js (the Block class: constructor, validate, getBData) is not      *)
(* among the sources; the operators Block, BlockValidate are modelled      *)
(* from the specification's description of a block.                        *)
(***************************************************************************)
EXTENDS Integers, Sequences, FiniteSets, TLC

(***************************************************************************)
(* Bounds of the model.                                                    *)
(***************************************************************************)
MaxSubmits == 2          \* number of submitStar calls in a behaviour
MaxMsgTime == 1          \* stale challenges carry a timestamp in 0..MaxMsgTime
StartMs == 300400        \* wall clock (milliseconds) at construction
MaxTicks == 1            \* number of clock advances in a behaviour
MaxValidates == 1        \* number of validateChain calls in a behaviour
MaxVSubmits == 1         \* number of submitStar calls in a behaviour that also validates
TickMs == 600            \* milliseconds per clock advance
MaxQSubmits == 2         \* number of submitStar calls in a behaviour that also queries
MaxCSubmits == 2         \* number of submitStar calls in a behaviour that requests challenges

MsgTimes == 0 .. MaxMsgTime

(***************************************************************************)
(* Strings.  A string that takes part in split(":") / parseInt is modelled *)
(* as the sequence of its ':'-free fields; a field is either a run of      *)
(* decimal digits (digits = TRUE, val = its value) or some other text      *)
(* (digits = FALSE, val = a name).                                         *)
(***************************************************************************)
Num(n) == [digits |-> TRUE, val |-> n]
Txt(n) == [digits |-> FALSE, val |-> n]

starRegistry == Txt(0)

\* wallet addresses: "A", "B" and "A:B" (an address containing ':')
Addresses == { <<Txt(1)>>, <<Txt(2)>>, <<Txt(1), Txt(2)>> }
Stars == {"S1"}

\* parseInt yields NaN on a field that does not start with a digit
NaN == -1

parseInt(field) == IF field.digits THEN field.val ELSE NaN

\* new Date().getTime().toString().slice(0, -3): drop the millisecond digits
SliceSeconds(ms) == Num(ms \div 1000)

\* `${address}:${seconds}:starRegistry`
ChallengeMessage(address, ms) == address \o <<SliceSeconds(ms)>> \o <<starRegistry>>

\* message.split(":") is the message itself in this representation
split(message) == message

(***************************************************************************)
(* Values of block fields.                                                 *)
(***************************************************************************)
Null == <<"null">>
Undefined == <<"undefined">>

\* SHA256(JSON.stringify(block)): an injective function of the serialised
\* fields (a property whose value is undefined is left out by JSON.stringify,
\* which keeps the serialisation distinct from one holding null or a digest)
SHA256(block) ==
    <<"sha256", block.hash, block.height, block.body, block.time, block.previousBlockHash>>

\* new BlockClass.Block(data)
Block(data) ==
    [hash |-> Null, height |-> 0, body |-> <<"hex", data>>, time |-> Num(0),
     previousBlockHash |-> Null]

\* block.validate(): recompute the digest over the stored contents and
\* compare it with the stored hash
BlockValidate(block) == SHA256([block EXCEPT !.hash = Null]) = block.hash

\* block.getBData(): the payload decoded from the body
getBData(block) == block.body[2]

GenesisData == [data |-> "Genesis Block"]

StarData(address, message, signature, star) ==
    [address |-> address, message |-> message, signature |-> signature, star |-> star]

(***************************************************************************)
(* bitcoinMessage.verify(message, address, signature): the external        *)
(* verifier accepts exactly the signature made for (message, address).     *)
(***************************************************************************)
Sign(message, address) == <<"sig", message, address>>
Forged == <<"sig", <<>>, <<>>>>
verify(message, address, signature) == signature = Sign(message, address)

(***************************************************************************)
(* Promise results.                                                        *)
(***************************************************************************)
Pending == [state |-> "pending", value |-> <<>>]
Resolved(v) == [state |-> "resolved", value |-> v]
Rejected(v) == [state |-> "rejected", value |-> v]

\* resolve/reject on a promise that is already settled has no effect
Settle(promise, outcome) == IF promise.state = "pending" THEN outcome ELSE promise

BlockAdded == <<"string", "Block added">>
ChainIsValid == <<"string", "Chain is valid">>
ExpiredChallenge == <<"string", "5 minutes or more has elapsed, can't register this new block">>
InvalidSignature == <<"string", "can't be verified">>

VARIABLES
    chain,       \* this.chain
    height,      \* this.height
    queue,       \* the microtask queue: continuations of suspended methods
    clock,       \* new Date().getTime(), milliseconds
    nSubmits,    \* number of submitStar calls made so far
    calls,       \* calls[i]: the arguments and observations of the i-th submitStar
    results,     \* results[i]: the promise returned by the i-th submitStar
    appender,    \* appender[k]: the append (0 = initializeChain, i = i-th submitStar) that pushed chain[k]
    overlap,     \* pairs of appends whose executions overlapped in time
    initDone,    \* initializeChain has returned
    nTicks,      \* number of clock advances so far
    nValidates,  \* number of validateChain calls made so far
    vResult,     \* the promise returned by the last validateChain
    errorLog,    \* errorLog of the last validateChain
    vFaults,     \* heights of the blocks whose check threw in the last validateChain
    vChecked,    \* indices of the blocks whose check has run to its end
    vLen,        \* number of blocks the last validateChain iterated over
    challenge,   \* the last message returned by requestMessageOwnershipVerification
    query,       \* the last query made by the client and the promise it returned
    tampered     \* blocks a client has altered through a reference it holds

vars == <<chain, height, queue, clock, nSubmits, calls, results, appender, overlap,
          initDone, nTicks, nValidates, vResult, errorLog, vFaults, vChecked, vLen,
          challenge, query, tampered>>

vvars == <<nValidates, vResult, errorLog, vFaults, vChecked, vLen>>

\* the variables on the client's side
cvars == <<challenge, query, tampered>>

NoChallenge == [address |-> <<>>, message |-> <<>>, issuedMs |-> 0]
NoQuery == [op |-> "none", arg |-> <<>>, len |-> 0, result |-> Pending]

NoCall == [currentTime |-> 0, messageTime |-> 0, accepts |-> FALSE, verifyInvoked |-> FALSE,
           heightBefore |-> 0, lenBefore |-> 0]

(***************************************************************************)
(* getChainHeight and getBlockByHeight.                                    *)
(***************************************************************************)
getChainHeight == height

\* self.chain.filter(p => p.height === h)[0], as an index into chain; 0 is null
getBlockByHeight(ch, h) ==
    LET found == {k \in 1 .. Len(ch) : ch[k].height = h}
    IN IF found = {} THEN 0 ELSE CHOOSE k \in found : \A j \in found : k <= j

(***************************************************************************)
(* _addBlock.                                                              *)
(***************************************************************************)
\* the appends that have started and not yet resolved
InFlight == {queue[k].id : k \in {j \in 1 .. Len(queue) : queue[j].k \in {"add1", "add2"}}}

\* lines 64-69: the executor runs up to `await self.getChainHeight()`; the
\* height is read at the call
AddBlockStart(id, block) ==
    [k |-> "add1", id |-> id, block |-> block, chainHeight |-> getChainHeight]

\* line 70: `await self.getBlockByHeight(chainHeight).hash` reads the property
\* `hash` of the promise returned by getBlockByHeight, which is undefined
PreviousBlockHashRead(ch, chainHeight) == Undefined

\* variant: the block is handed over before its hash is assigned
AddBlockFields_NoHash(block, chainHeight, previousBlockHash, ms) ==
    [block EXCEPT !.previousBlockHash = previousBlockHash,
                  !.time = SliceSeconds(ms),
                  !.height = chainHeight + 1]

\* variant: the block keeps the height that was read
AddBlockFields_KeepHeight(block, chainHeight, previousBlockHash, ms) ==
    LET b1 == [block EXCEPT !.previousBlockHash = previousBlockHash,
                            !.time = SliceSeconds(ms),
                            !.height = chainHeight]
    IN [b1 EXCEPT !.hash = SHA256(b1)]

\* lines 71-79: link, stamp, number and hash the block
AddBlockFields(block, chainHeight, previousBlockHash, ms) ==
    LET b1 == [block EXCEPT !.previousBlockHash = previousBlockHash,
                            !.time = SliceSeconds(ms),
                            !.height = chainHeight + 1]
    IN [b1 EXCEPT !.hash = SHA256(b1)]

\* variant: the block is put at the front of the array (unshift)
Push_Front(ch, block) == <<block>> \o ch

\* line 82: self.chain.push(block)
Push(ch, block) == Append(ch, block)

\* variant: the height is left as it was
IncreaseHeight_Keep(h) == h

\* variant: the height advances by two
IncreaseHeight_Twice(h) == h + 2

\* line 85: self.height += 1
IncreaseHeight(h) == h + 1

(***************************************************************************)
(* submitStar, lines 136-154: the checks made before the block is built.   *)
(***************************************************************************)
fiveMinutes == 60 * 5

MessageTime(message) == parseInt(split(message)[2])

CurrentTime(ms) == parseInt(SliceSeconds(ms))

\* variant: a strict comparison, which lets elapsed = 300 through
Elapsed5Minutes_Strict(currentTime, messageTime) ==
    messageTime # NaN /\ currentTime - messageTime > 60 * 5

\* line 147; a comparison with NaN is false
Elapsed5Minutes(currentTime, messageTime) ==
    messageTime # NaN /\ currentTime - messageTime >= fiveMinutes

\* variant: a challenge that a block of the chain already carries is refused
SubmitChecks_SingleUse(address, message, signature, currentTime) ==
    IF Elapsed5Minutes(currentTime, MessageTime(message))
    THEN [outcome |-> "expired", verifyInvoked |-> FALSE]
    ELSE IF \/ ~verify(message, address, signature)
            \/ \E k \in 1 .. Len(chain) :
                   /\ "message" \in DOMAIN getBData(chain[k])
                   /\ getBData(chain[k]).message = message
         THEN [outcome |-> "invalid", verifyInvoked |-> TRUE]
         ELSE [outcome |-> "ok", verifyInvoked |-> TRUE]

\* variant: the signature is verified before the freshness check
SubmitChecks_VerifyFirst(address, message, signature, currentTime) ==
    IF ~verify(message, address, signature)
    THEN [outcome |-> "invalid", verifyInvoked |-> TRUE]
    ELSE IF Elapsed5Minutes(currentTime, MessageTime(message))
         THEN [outcome |-> "expired", verifyInvoked |-> TRUE]
         ELSE [outcome |-> "ok", verifyInvoked |-> TRUE]

\* lines 146-154: the outcome of the two checks and whether the verifier was invoked
SubmitChecks(address, message, signature, currentTime) ==
    IF Elapsed5Minutes(currentTime, MessageTime(message))
    THEN [outcome |-> "expired", verifyInvoked |-> FALSE]
    ELSE IF ~verify(message, address, signature)
         THEN [outcome |-> "invalid", verifyInvoked |-> TRUE]
         ELSE [outcome |-> "ok", verifyInvoked |-> TRUE]

\* variant: reject is called without `return`, and the code goes on
Proceeds_NoReturn(outcome) == TRUE

\* lines 148 and 154: `return reject(...)`; lines 156-164 are reached only when
\* both checks passed
Proceeds(outcome) == outcome = "ok"

(***************************************************************************)
(* Initial state: the constructor has returned.  It has set chain and      *)
(* height and called initializeChain, which has built the genesis block,   *)
(* called _addBlock and is suspended on it; _addBlock has read the height  *)
(* and is suspended at its first await.                                    *)
(***************************************************************************)
Init ==
    /\ chain = <<>>
    /\ height = -1
    /\ queue = <<[k |-> "add1", id |-> 0, block |-> Block(GenesisData),
                  chainHeight |-> -1]>>
    /\ clock = StartMs
    /\ nSubmits = 0
    /\ calls = [i \in 1 .. MaxSubmits |-> NoCall]
    /\ results = [i \in 1 .. MaxSubmits |-> Pending]
    /\ appender = <<>>
    /\ overlap = {}
    /\ initDone = FALSE
    /\ nTicks = 0
    /\ nValidates = 0
    /\ vResult = Pending
    /\ errorLog = <<>>
    /\ vFaults = {}
    /\ vChecked = {}
    /\ vLen = 0
    /\ challenge = NoChallenge
    /\ query = NoQuery
    /\ tampered = {}

(***************************************************************************)
(* The wall clock advances.                                                *)
(***************************************************************************)
Tick ==
    /\ nTicks < MaxTicks
    /\ clock' = clock + TickMs
    /\ nTicks' = nTicks + 1
    /\ UNCHANGED <<chain, height, queue, nSubmits, calls, results, appender, overlap,
                   initDone, vvars, cvars>>

(***************************************************************************)
(* submitStar(address, message, signature, star): the synchronous part,    *)
(* up to `await self._addBlock(block)`.                                    *)
(***************************************************************************)
\* the messages a client holds: challenges issued for its address earlier
MessagesFor(address) == {ChallengeMessage(address, t * 1000) : t \in MsgTimes}

\* requests: the pairs <<address, message>> the client may submit
SubmitStarWith(limit, requests, stars, goods) ==
    /\ nSubmits < limit
    /\ \E request \in requests, star \in stars, good \in goods :
         LET address == request[1]
             message == request[2]
             id == nSubmits + 1
             signature == IF good THEN Sign(message, address) ELSE Forged
             currentTime == CurrentTime(clock)
             chk == SubmitChecks(address, message, signature, currentTime)
             block == Block(StarData(address, message, signature, star))
         IN /\ nSubmits' = id
            /\ calls' = [calls EXCEPT ![id] =
                   [currentTime |-> currentTime,
                    messageTime |-> MessageTime(message),
                    accepts |-> verify(message, address, signature),
                    verifyInvoked |-> chk.verifyInvoked,
                    heightBefore |-> height, lenBefore |-> Len(chain)]]
            /\ results' = IF chk.outcome = "expired"
                          THEN [results EXCEPT ![id] = Rejected(ExpiredChallenge)]
                          ELSE IF chk.outcome = "invalid"
                          THEN [results EXCEPT ![id] = Rejected(InvalidSignature)]
                          ELSE results
            /\ IF Proceeds(chk.outcome)
               THEN /\ queue' = Append(queue, AddBlockStart(id, block))
                    /\ overlap' = overlap \cup {<<j, id>> : j \in InFlight}
               ELSE UNCHANGED <<queue, overlap>>
            /\ UNCHANGED <<chain, height, clock, appender, initDone, nTicks, vvars, cvars>>

\* the client submits a stale or fresh challenge for any address, with a
\* signature the verifier accepts or not
StaleRequests == UNION {{<<address, message>> : message \in MessagesFor(address)} :
                           address \in Addresses}

SubmitStar(limit) == SubmitStarWith(limit, StaleRequests, Stars, BOOLEAN)

(***************************************************************************)
(* The continuation at the head of the microtask queue runs up to its next *)
(* await.                                                                  *)
(***************************************************************************)
\* _addBlock after `await self.getChainHeight()`: line 70, then suspended again
AddBlockLookup ==
    /\ queue # <<>>
    /\ queue[1].k = "add1"
    /\ queue' = Append(Tail(queue),
                       [queue[1] EXCEPT !.k = "add2",
                            !.block.previousBlockHash =
                                PreviousBlockHashRead(chain, queue[1].chainHeight)])
    /\ UNCHANGED <<chain, height, clock, nSubmits, calls, results, appender, overlap,
                   initDone, nTicks, vvars, cvars>>

\* _addBlock, lines 71-88: build the block, push it, advance the height and
\* resolve, which schedules the caller that awaits the append
AddBlockPush ==
    /\ queue # <<>>
    /\ queue[1].k = "add2"
    /\ LET t == queue[1]
           b == AddBlockFields(t.block, t.chainHeight, t.block.previousBlockHash, clock)
       IN /\ chain' = Push(chain, b)
          /\ appender' = Append(appender, t.id)
          /\ height' = IncreaseHeight(height)
          /\ queue' = Append(Tail(queue), [t EXCEPT !.k = "added", !.block = b])
    /\ UNCHANGED <<clock, nSubmits, calls, results, overlap, initDone, nTicks, vvars, cvars>>

\* initializeChain after `await this._addBlock(block)`: returns
InitializeChainReturn ==
    /\ queue # <<>>
    /\ queue[1].k = "added"
    /\ queue[1].id = 0
    /\ initDone' = TRUE
    /\ queue' = Tail(queue)
    /\ UNCHANGED <<chain, height, clock, nSubmits, calls, results, appender, overlap, nTicks, vvars, cvars>>

\* submitStar after `await self._addBlock(block)`: line 165
SubmitStarResolve ==
    /\ queue # <<>>
    /\ queue[1].k = "added"
    /\ queue[1].id # 0
    /\ results' = [results EXCEPT ![queue[1].id] = Settle(@, Resolved(BlockAdded))]
    /\ queue' = Tail(queue)
    /\ UNCHANGED <<chain, height, clock, nSubmits, calls, appender, overlap, initDone, nTicks, vvars, cvars>>

(***************************************************************************)
(* validateChain, lines 246-275.  forEach starts one async check per       *)
(* block; each runs up to `await block.validate()` and is suspended.  The  *)
(* executor then inspects errorLog and settles the promise.                *)
(***************************************************************************)
HashMismatch(h) == <<"Block validation failed at height", h>>
LinkageBroken(h) == <<"Previous block hash validation failed at height", h>>

\* lines 272-273
ValidateOutcome(log) ==
    IF Len(log) > 0 THEN Rejected(<<"errorLog", log>>) ELSE Resolved(ChainIsValid)

\* lines 250-254: the checks started by forEach, in chain order
ValidateStarted(ch) ==
    [i \in 1 .. Len(ch) |-> [k |-> "val1", idx |-> i, valid |-> BlockValidate(ch[i])]]

ValidateChain ==
    /\ nValidates < MaxValidates
    /\ nValidates' = nValidates + 1
    /\ queue' = queue \o ValidateStarted(chain)
    /\ errorLog' = <<>>
    /\ vFaults' = {}
    /\ vChecked' = {}
    /\ vLen' = Len(chain)
    /\ vResult' = Settle(Pending, ValidateOutcome(errorLog'))
    /\ UNCHANGED <<chain, height, clock, nSubmits, calls, results, appender, overlap,
                   initDone, nTicks, cvars>>

\* lines 255-261: after `await block.validate()`, up to
\* `await self.getBlockByHeight(block.height - 1)`
ValidateBlockHash ==
    /\ queue # <<>>
    /\ queue[1].k = "val1"
    /\ LET t == queue[1]
           block == chain[t.idx]
       IN /\ errorLog' = IF ~t.valid THEN Append(errorLog, HashMismatch(block.height))
                                      ELSE errorLog
          /\ queue' = Append(Tail(queue),
                             [k |-> "val2", idx |-> t.idx,
                              previousBlock |-> getBlockByHeight(chain, block.height - 1)])
    /\ UNCHANGED <<chain, height, clock, nSubmits, calls, results, appender, overlap,
                   initDone, nTicks, nValidates, vResult, vFaults, vChecked, vLen, cvars>>

\* lines 262-268: `previousBlock.hash` throws when previousBlock is null; the
\* catch calls reject on the promise
ValidateBlockLink ==
    /\ queue # <<>>
    /\ queue[1].k = "val2"
    /\ LET t == queue[1]
           block == chain[t.idx]
       IN IF t.previousBlock = 0
          THEN /\ vFaults' = vFaults \cup {block.height}
               /\ vResult' = Settle(vResult, Rejected(<<"TypeError", block.height>>))
               /\ UNCHANGED errorLog
          ELSE /\ errorLog' = IF chain[t.previousBlock].hash # block.previousBlockHash
                              THEN Append(errorLog, LinkageBroken(block.height))
                              ELSE errorLog
               /\ UNCHANGED <<vFaults, vResult>>
    /\ vChecked' = vChecked \cup {queue[1].idx}
    /\ queue' = Tail(queue)
    /\ UNCHANGED <<chain, height, clock, nSubmits, calls, results, appender, overlap,
                   initDone, nTicks, nValidates, vLen, cvars>>

\* the append path: construction, submitStar and the wall clock
Next ==
    \/ Tick
    \/ SubmitStar(MaxSubmits)
    \/ AddBlockLookup
    \/ AddBlockPush
    \/ InitializeChainReturn
    \/ SubmitStarResolve

Spec == Init /\ [][Next]_vars

\* the append path together with validateChain
NextV ==
    \/ Tick
    \/ SubmitStar(MaxVSubmits)
    \/ AddBlockLookup
    \/ AddBlockPush
    \/ InitializeChainReturn
    \/ SubmitStarResolve
    \/ ValidateChain
    \/ ValidateBlockHash
    \/ ValidateBlockLink

SpecV == Init /\ [][NextV]_vars

(***************************************************************************)
(* requestMessageOwnershipVerification(address), lines 103-112.  The       *)
(* client keeps the message it was given.                                  *)
(***************************************************************************)
RequestMessageOwnershipVerification ==
    /\ \E address \in Addresses :
         challenge' = [address |-> address,
                       message |-> ChallengeMessage(address, clock),
                       issuedMs |-> clock]
    /\ UNCHANGED <<chain, height, queue, clock, nSubmits, calls, results, appender,
                   overlap, initDone, nTicks, vvars, query, tampered>>

\* the client submits the challenge it was given, signed or not
ChallengeRequests ==
    IF challenge = NoChallenge THEN {} ELSE {<<challenge.address, challenge.message>>}

SubmitChallenge(limit) == SubmitStarWith(limit, ChallengeRequests, Stars, BOOLEAN)

\* the client submits the challenge it was given with its signature
SubmitSigned(limit) == SubmitStarWith(limit, ChallengeRequests, Stars, {TRUE})

\* the append path, called by a client that submits the challenges it requested
NextC ==
    \/ RequestMessageOwnershipVerification
    \/ SubmitChallenge(MaxCSubmits)
    \/ AddBlockLookup
    \/ AddBlockPush
    \/ InitializeChainReturn
    \/ SubmitStarResolve

SpecC == Init /\ [][NextC]_vars

(***************************************************************************)
(* The queries.  Each settles its promise within the call.                 *)
(***************************************************************************)
NotFound(hash) == <<"string", "Can't find block with hash", hash>>

\* variant: a miss resolves with the first block of the chain
getBlockByHash_Default(ch, hash) ==
    LET found == {k \in 1 .. Len(ch) : ch[k].hash = hash}
    IN IF found = {}
       THEN (IF ch = <<>> THEN Rejected(NotFound(hash)) ELSE Resolved(<<"block", ch[1]>>))
       ELSE Resolved(<<"block", ch[CHOOSE k \in found : \A j \in found : k <= j]>>)

\* lines 178-189: self.chain.find(block => block.hash === hash)
getBlockByHash(ch, hash) ==
    LET found == {k \in 1 .. Len(ch) : ch[k].hash = hash}
    IN IF found = {}
       THEN Rejected(NotFound(hash))
       ELSE Resolved(<<"block", ch[CHOOSE k \in found : \A j \in found : k <= j]>>)

\* lines 196-206: the promise getBlockByHeight returns
getBlockByHeightResult(ch, h) ==
    LET k == getBlockByHeight(ch, h)
    IN IF k # 0 THEN Resolved(<<"block", ch[k]>>) ELSE Resolved(Null)

\* line 229: `if (star)`; a star is a non-empty value
Truthy(star) == star # ""

\* lines 214-238: the stars of the blocks that pass the tests of the loop
getStarsByWalletAddress(ch, address) ==
    LET Owned(block) ==
            /\ block.height # 0
            /\ "address" \in DOMAIN getBData(block)
            /\ getBData(block).address = address
            /\ Truthy(getBData(block).star)
        owned == SelectSeq(ch, Owned)
    IN Resolved(<<"stars", [i \in 1 .. Len(owned) |-> getBData(owned[i]).star]>>)

\* a digest no block carries
UnknownHash == <<"sha256", "unknown">>

GetBlockByHash ==
    /\ \E hash \in {chain[k].hash : k \in 1 .. Len(chain)} \cup {UnknownHash} :
         query' = [op |-> "getBlockByHash", arg |-> <<hash>>, len |-> Len(chain),
                   result |-> getBlockByHash(chain, hash)]
    /\ UNCHANGED <<chain, height, queue, clock, nSubmits, calls, results, appender,
                   overlap, initDone, nTicks, vvars, challenge, tampered>>

GetBlockByHeight ==
    /\ \E h \in -1 .. Len(chain) :
         query' = [op |-> "getBlockByHeight", arg |-> <<h>>, len |-> Len(chain),
                   result |-> getBlockByHeightResult(chain, h)]
    /\ UNCHANGED <<chain, height, queue, clock, nSubmits, calls, results, appender,
                   overlap, initDone, nTicks, vvars, challenge, tampered>>

GetStarsByWalletAddress ==
    /\ \E address \in Addresses :
         query' = [op |-> "getStarsByWalletAddress", arg |-> <<address>>, len |-> Len(chain),
                   result |-> getStarsByWalletAddress(chain, address)]
    /\ UNCHANGED <<chain, height, queue, clock, nSubmits, calls, results, appender,
                   overlap, initDone, nTicks, vvars, challenge, tampered>>

\* the append path and the queries, called by a client that submits the
\* challenges it requested
NextQ ==
    \/ RequestMessageOwnershipVerification
    \/ SubmitSigned(MaxQSubmits)
    \/ AddBlockLookup
    \/ AddBlockPush
    \/ InitializeChainReturn
    \/ SubmitStarResolve
    \/ GetBlockByHash
    \/ GetBlockByHeight
    \/ GetStarsByWalletAddress

SpecQ == Init /\ [][NextQ]_vars

\* the append path and the lookup by hash
NextH ==
    \/ RequestMessageOwnershipVerification
    \/ SubmitSigned(MaxQSubmits)
    \/ AddBlockLookup
    \/ AddBlockPush
    \/ InitializeChainReturn
    \/ SubmitStarResolve
    \/ GetBlockByHash

SpecH == Init /\ [][NextH]_vars

(***************************************************************************)
(* A client that holds a reference to a block of the chain (getBlockByHash *)
(* resolves with the stored object itself, line 184) replaces its          *)
(* previousBlockHash by an arbitrary value.                                *)
(***************************************************************************)
Arbitrary == <<"arbitrary">>

TamperedBlocks == {t[1] : t \in tampered}

TamperPreviousHash ==
    /\ \E k \in 1 .. Len(chain) :
         /\ k \notin TamperedBlocks
         /\ chain' = [chain EXCEPT ![k].previousBlockHash = Arbitrary]
         /\ tampered' = tampered \cup {<<k, nValidates>>}
    /\ UNCHANGED <<height, queue, clock, nSubmits, calls, results, appender, overlap,
                   initDone, nTicks, vvars, challenge, query>>

\* the append path and validateChain on a chain a client tampers with
NextT ==
    \/ Tick
    \/ SubmitStar(MaxVSubmits)
    \/ AddBlockLookup
    \/ AddBlockPush
    \/ InitializeChainReturn
    \/ SubmitStarResolve
    \/ ValidateChain
    \/ ValidateBlockHash
    \/ ValidateBlockLink
    \/ TamperPreviousHash

SpecT == Init /\ [][NextT]_vars

(***************************************************************************)
(* Properties.                                                             *)
(***************************************************************************)
Submitted == 1 .. nSubmits

IsDigest(v) == v[1] = "sha256"

\* the payload a block was built from
Payload(block) == block.body[2]

\* the chain indices pushed by append id
PushedBy(id) == {k \in 1 .. Len(chain) : appender[k] = id}

Overlapped(a, b) == <<a, b>> \in overlap \/ <<b, a>> \in overlap

PassedFreshness(c) == c.messageTime = NaN \/ c.currentTime - c.messageTime < 300

\* C1: two appends whose executions overlap in time never push blocks with
\* the same height, nor blocks with the same previousBlockHash.
C1_OverlappingAppendsDiffer ==
    \A i, j \in 1 .. Len(chain) :
        (i < j /\ Overlapped(appender[i], appender[j]))
            => /\ chain[i].height # chain[j].height
               /\ chain[i].previousBlockHash # chain[j].previousBlockHash

\* C2: once the constructor has returned the height is >= 0 and the chain
\* holds the genesis block, and no submitStar call observes height -1 or an
\* empty chain.
C2_GenesisBeforeAnyOperation ==
    /\ height >= 0
    /\ Len(chain) >= 1
    /\ \A i \in Submitted : calls[i].heightBefore >= 0 /\ calls[i].lenBefore >= 1

\* C3: when initializeChain has returned and no submitStar has been issued,
\* the height is 0 and the chain holds exactly one block, of height 0, whose
\* previousBlockHash is not a digest and whose payload is the genesis payload.
C3_GenesisInvariant ==
    (initDone /\ nSubmits = 0)
        => /\ height = 0
           /\ Len(chain) = 1
           /\ chain[1].height = 0
           /\ ~IsDigest(chain[1].previousBlockHash)
           /\ Payload(chain[1]) = [data |-> "Genesis Block"]

C3_Witness == initDone /\ nSubmits = 0 /\ Len(chain) = 1 /\ height = 0

\* C4: as long as no two appends have overlapped, the block at index i of
\* the chain (counting from 0) has height i: the heights are 0..N with no gap
\* and no duplicate.
C4_SequentialHeights ==
    overlap = {} => \A k \in 1 .. Len(chain) : chain[k].height = k - 1

C4_Witness == overlap = {} /\ Len(chain) = 3 /\ chain[3].height = 2

\* C5: every block of height h > 0 has a previousBlockHash equal to the hash
\* of the block of height h - 1.
C5_PreviousHashLinks ==
    \A k \in 1 .. Len(chain) :
        chain[k].height > 0
            => LET p == getBlockByHeight(chain, chain[k].height - 1)
               IN p # 0 /\ chain[k].previousBlockHash = chain[p].hash

\* C6: for a message with an integer timestamp, submitStar rejects with the
\* expiry message exactly when currentTime - messageTime >= 300; with a smaller
\* elapsed time and a signature the verifier accepts the call is not rejected,
\* its append is under way until it resolves, and once resolved its block is
\* in the chain.
C6_FreshnessBoundary ==
    \A i \in Submitted :
        calls[i].messageTime # NaN
            => /\ (results[i] = Rejected(ExpiredChallenge))
                      <=> (calls[i].currentTime - calls[i].messageTime >= 300)
               /\ (calls[i].currentTime - calls[i].messageTime <= 299 /\ calls[i].accepts)
                      => /\ results[i].state # "rejected"
                         /\ results[i].state = "pending"
                                => \E q \in 1 .. Len(queue) :
                                       queue[q].k \in {"add1", "add2", "added"} /\ queue[q].id = i
                         /\ results[i].state = "resolved" => Cardinality(PushedBy(i)) = 1

C6_Witness ==
    \E i, j \in Submitted :
        /\ calls[i].currentTime - calls[i].messageTime = 299
        /\ calls[i].messageTime # NaN
        /\ results[i].state = "resolved"
        /\ PushedBy(i) # {}
        /\ calls[j].currentTime - calls[j].messageTime = 300
        /\ calls[j].accepts
        /\ results[j] = Rejected(ExpiredChallenge)

\* C7: a request whose elapsed time is >= 300 is rejected as expired without
\* the verifier being invoked, whatever the signature; a request is rejected
\* for its signature only if it passed the freshness check.
C7_FreshnessBeforeSignature ==
    \A i \in Submitted :
        /\ (calls[i].messageTime # NaN /\ calls[i].currentTime - calls[i].messageTime >= 300)
               => ~calls[i].verifyInvoked /\ results[i] = Rejected(ExpiredChallenge)
        /\ results[i] = Rejected(InvalidSignature)
               => PassedFreshness(calls[i]) /\ calls[i].verifyInvoked

C7_Witness ==
    \E i, j \in Submitted :
        /\ calls[i].messageTime # NaN
        /\ calls[i].currentTime - calls[i].messageTime >= 300
        /\ ~calls[i].accepts
        /\ results[i] = Rejected(ExpiredChallenge)
        /\ results[j] = Rejected(InvalidSignature)

\* C8: a submitStar that resolves resolves with the block it appended, whose
\* payload holds address, message, signature and star; exactly one block was
\* pushed for it.
C8_ResolvesWithBlock ==
    \A i \in Submitted :
        results[i].state = "resolved"
            => /\ Cardinality(PushedBy(i)) = 1
               /\ \A k \in PushedBy(i) :
                      /\ DOMAIN Payload(chain[k]) = {"address", "message", "signature", "star"}
                      /\ results[i].value = <<"block", chain[k]>>

\* C9: when the promise of validateChain is settled, every block it iterated
\* over has been checked, and every finding is in its result: a hash mismatch
\* for each block whose recomputed digest differs from its hash, a linkage
\* failure for each block of height h > 0 whose previousBlockHash differs from
\* the hash of the block of height h - 1.
ExpectedFindings ==
    {HashMismatch(chain[k].height) : k \in {j \in 1 .. vLen : ~BlockValidate(chain[j])}}
        \cup
    {LinkageBroken(chain[k].height) :
        k \in {j \in 1 .. vLen :
                  /\ chain[j].height > 0
                  /\ LET p == getBlockByHeight(chain, chain[j].height - 1)
                     IN p = 0 \/ chain[p].hash # chain[j].previousBlockHash}}

Reported ==
    IF vResult.state = "rejected" /\ vResult.value[1] = "errorLog"
    THEN {vResult.value[2][n] : n \in 1 .. Len(vResult.value[2])}
    ELSE {}

C9_ValidateReportsEveryFinding ==
    (nValidates > 0 /\ vResult.state # "pending")
        => /\ vChecked = 1 .. vLen
           /\ ExpectedFindings \subseteq Reported

\* C10: on a ledger built by construction and submitStar alone, the per-block
\* checks of validateChain log no finding and raise no fault, the genesis
\* block included.
C10_HonestChainHasNoFinding == errorLog = <<>> /\ vFaults = {}

\* C11: when the previousBlockHash of a block that has a successor was
\* replaced before validateChain was called, the result of validateChain,
\* once all its checks have run, reports a linkage failure at the next height.
C11_TamperedLinkReported ==
    \A t \in tampered :
        (/\ t[2] < nValidates
         /\ t[1] < vLen
         /\ vResult.state # "pending"
         /\ vChecked = 1 .. vLen)
            => LinkageBroken(chain[t[1]].height + 1) \in Reported

\* the blocks of the chain when the last query was made
Queried == 1 .. query.len

\* C12: getBlockByHash called with the hash of a stored block resolves with
\* the first block of the chain that carries this hash, and every stored block
\* with this hash equals it; called with a hash no block carries it rejects.
C12_HashRoundTrip ==
    query.op = "getBlockByHash"
        => LET hash == query.arg[1]
               found == {k \in Queried : chain[k].hash = hash}
           IN IF found = {}
              THEN query.result = Rejected(NotFound(hash))
              ELSE /\ query.result.state = "resolved"
                   /\ query.result.value[1] = "block"
                   /\ \A k \in found : query.result.value[2] = chain[k]
                   /\ \E k \in found :
                          /\ \A j \in found : k <= j
                          /\ query.result.value[2] = chain[k]

C12_Witness ==
    /\ query.op = "getBlockByHash"
    /\ query.len >= 2
    /\ query.result = Resolved(<<"block", chain[2]>>)
    /\ chain[2].hash = query.arg[1]

\* the stars of the blocks pushed by submitStar for an address, in chain order
StarsUpTo[n \in 0 .. Len(chain)] ==
    IF n = 0 THEN <<>>
    ELSE IF appender[n] # 0 /\ getBData(chain[n]).address = query.arg[1]
         THEN Append(StarsUpTo[n - 1], getBData(chain[n]).star)
         ELSE StarsUpTo[n - 1]

\* C13: getStarsByWalletAddress(a) resolves with the star of every block that
\* submitStar pushed for address a, one per block, in chain order.
C13_StarsOfAddress ==
    query.op = "getStarsByWalletAddress"
        => query.result = Resolved(<<"stars", StarsUpTo[query.len]>>)

\* C14: getBlockByHeight(h) resolves with the block at index h of the chain
\* when 0 <= h <= height, and with null otherwise.
C14_LookupByIndex ==
    query.op = "getBlockByHeight"
        => LET h == query.arg[1]
           IN IF 0 <= h /\ h <= query.len - 1
              THEN query.result = Resolved(<<"block", chain[h + 1]>>)
              ELSE query.result = Resolved(Null)

C16_NoPartialBlock ==
    \A k \in 1 .. Len(chain) :
        /\ IsDigest(chain[k].hash)
        /\ BlockValidate(chain[k])
        /\ chain[k].time # Num(0)
        /\ chain[k].previousBlockHash # Null

C16_Witness ==
    /\ Len(chain) >= 2
    /\ \E q \in 1 .. Len(queue) : queue[q].k = "add2"

AcceptanceRule ==
    \A i \in Submitted :
        /\ results[i].state = "rejected"
               <=> (~PassedFreshness(calls[i]) \/ ~calls[i].accepts)
        /\ results[i].state = "resolved" => Cardinality(PushedBy(i)) = 1

\* C18: requestMessageOwnershipVerification changes nothing of the ledger, and
\* a submitStar is accepted whenever its message is fresh and its signature
\* verifies, also when the same signed message was accepted before.
C18_StatelessChallenge ==
    [][/\ challenge' # challenge
              => UNCHANGED <<chain, height, queue, nSubmits, calls, results, appender>>
       /\ AcceptanceRule']_vars

C18_Witness ==
    \E i, j \in Submitted :
        /\ i < j
        /\ results[i].state = "resolved"
        /\ results[j].state = "resolved"
        /\ calls[j].lenBefore >= 2
        /\ \E k \in PushedBy(i), l \in PushedBy(j) :
               k # l /\ chain[k].body = chain[l].body

\* nothing is or will be appended for call i
NoAppendFor(i) ==
    /\ PushedBy(i) = {}
    /\ \A q \in 1 .. Len(queue) :
           queue[q].k \in {"add1", "add2", "added"} => queue[q].id # i

\* C19: the step in which a submitStar is rejected leaves chain, height and
\* the pending work unchanged, and no block is ever pushed for a rejected call.
C19_RejectedSubmitChangesNothing ==
    [][\A i \in 1 .. MaxSubmits :
          results'[i].state = "rejected"
              => /\ NoAppendFor(i)'
                 /\ results[i].state # "rejected"
                        => chain' = chain /\ height' = height /\ queue' = queue]_vars

C19_Witness ==
    /\ initDone
    /\ \E i, j \in Submitted :
           /\ results[i] = Rejected(ExpiredChallenge)
           /\ results[j] = Rejected(InvalidSignature)

\* C20: the timestamp submitStar parses from the message that
\* requestMessageOwnershipVerification returned is the time of issue in
\* seconds, for every address.
C20_ChallengeRoundTrip ==
    challenge # NoChallenge
        => MessageTime(challenge.message) = challenge.issuedMs \div 1000

====
